---- MODULE Spec2Model ----
(***************************************************************************)
(* Model of tree-ds `Tree<Q, T>` (src/src/tree.rs).                        *)
(*                                                                         *)
(* A Node is a shared handle (a reference-counted cell): the Tree's store  *)
(* is a Vec of handles, and parent / children fields hold ids, not         *)
(* handles.  The model keeps the cells in `heap` (handle -> cell) and the  *)
(* stores as sequences of handles, so that a mutation made through one     *)
(* handle is seen through every other handle of the same cell.             *)
(*                                                                         *)
(* Option<X> is modelled as a sequence of length at most one:              *)
(*   None == << >>,  Some(x) == << x >>.                                   *)
(***************************************************************************)
EXTENDS Integers, Sequences, FiniteSets

\* ------------------------------------------------------------------ bounds
\* Spec (any call, any argument): keys 1..MaxKey, at most MaxStore stored nodes.
MaxKey == 3

MaxStore == 3

\* SpecUnique, SpecQuery, SpecSubtree, SpecMerge (node ids never reused):
\* ids 1..MaxId, at most MaxNodes stored nodes.
MaxId == 4

MaxNodes == 4

\* SpecRender: at most MaxRender stored nodes.
MaxRender == 6

\* SpecSubtree: get_subtree is called with None or Some(g), g in 0..MaxGen.
MaxGen == 2

Keys == 1..MaxKey

Ids == 1..MaxId

\* ------------------------------------------------------------------ options
None == << >>

Some(x) == << x >>

IsSome(o) == o # << >>

Unwrap(o) == o[1]

Opt(S) == {None} \cup {Some(i) : i \in S}

\* ------------------------------------------------------------------ state
VARIABLES
    heap,   \* handle -> node cell [id, parent, children]
    nodes,  \* Tree.nodes of the Tree the calls are made on: sequence of handles
    sub,    \* Tree.nodes of a second Tree value (a SubTree): sequence of handles
    op,     \* the last call and what it returned: [name, id, arg, res, ret]
    pre,    \* the cells of `nodes`, in stored order, before the last mutating call
            \* (SpecSubtree: before the extraction; SpecMerge: paired with the
            \* cells of `sub`)
    out     \* the Vec returned by the last traverse call, or the lines written
            \* by the last rendering

vars == << heap, nodes, sub, op, pre, out >>

\* ------------------------------------------------------------------ helpers
Contains(s, x) == \E i \in 1..Len(s) : s[i] = x

RECURSIVE DedupFrom(_, _)
DedupFrom(s, seen) ==
    IF s = << >> THEN << >>
    ELSE IF Head(s) \in seen THEN DedupFrom(Tail(s), seen)
         ELSE << Head(s) >> \o DedupFrom(Tail(s), seen \cup {Head(s)})

\* `let mut seen = HashSet::new(); v.retain(|x| seen.insert(x.clone()))`
Dedup(s) == DedupFrom(s, {})

\* The cells of a store, in stored order (what Tree equality compares).
View(h, ns) == [i \in 1..Len(ns) |-> h[ns[i]]]

\* ------------------------------------------------------------------ Node
\* Node::new(id, value): no parent, no children (the value is payload only).
NewNode(id) == [id |-> id, parent |-> None, children |-> << >>]

\* parent.add_child(child): push the child's id, set the child's parent.
add_child(h, p, c) ==
    LET h1 == [h EXCEPT ![p].children = Append(@, h[c].id)]
    IN  [h1 EXCEPT ![c].parent = Some(h1[p].id)]

\* parent.remove_child(child): children.retain(|x| x != child id), clear the
\* child's parent.
remove_child(h, p, c) ==
    LET cid == h[c].id
        h1  == [h EXCEPT ![p].children = SelectSeq(@, LAMBDA x : x # cid)]
    IN  [h1 EXCEPT ![c].parent = None]

\* ------------------------------------------------------------------ Tree
\* self.nodes.iter().find(|n| &n.get_node_id() == node_id): Option<handle>
get_node(h, ns, id) ==
    IF \E i \in 1..Len(ns) : h[ns[i]].id = id
    THEN Some(ns[CHOOSE i \in 1..Len(ns) :
                    /\ h[ns[i]].id = id
                    /\ \A j \in 1..(i - 1) : h[ns[j]].id # id])
    ELSE None

\* self.nodes.iter().find(|n| n.get_parent().is_none()): Option<handle>
get_root_node(h, ns) ==
    IF \E i \in 1..Len(ns) : h[ns[i]].parent = None
    THEN Some(ns[CHOOSE i \in 1..Len(ns) :
                    /\ h[ns[i]].parent = None
                    /\ \A j \in 1..(i - 1) : h[ns[j]].parent # None])
    ELSE None

\* Mutant: add_node without the RootNodeAlreadyPresent check.
add_node_second_root(h, ns, id, parent_id) ==
    LET n  == Len(h) + 1
        h0 == Append(h, NewNode(id))
        parent == IF IsSome(parent_id) THEN get_node(h0, ns, Unwrap(parent_id)) ELSE None
        h1 == IF IsSome(parent) THEN add_child(h0, Unwrap(parent), n) ELSE h0
    IN  [heap |-> h1, nodes |-> Append(ns, n), res |-> "Ok", ret |-> Some(h1[n].id)]

\* Mutant: add_node that rejects a parent id it cannot find.
add_node_strict(h, ns, id, parent_id) ==
    LET n  == Len(h) + 1
        h0 == Append(h, NewNode(id))
    IN  IF IsSome(parent_id)
        THEN LET parent == get_node(h0, ns, Unwrap(parent_id))
             IN  IF IsSome(parent)
                 THEN [heap |-> add_child(h0, Unwrap(parent), n), nodes |-> Append(ns, n),
                       res |-> "Ok", ret |-> Some(h0[n].id)]
                 ELSE [heap |-> h, nodes |-> ns, res |-> "InvalidOperation", ret |-> None]
        ELSE IF IsSome(get_root_node(h0, ns))
             THEN [heap |-> h, nodes |-> ns, res |-> "RootNodeAlreadyPresent", ret |-> None]
             ELSE [heap |-> h0, nodes |-> Append(ns, n), res |-> "Ok", ret |-> Some(h0[n].id)]

\* Tree::add_node(Node::new(id, _), parent_id) on the store ns.
\* Result: the heap, the store, Ok / Err, and the id returned in Ok.
add_node(h, ns, id, parent_id) ==
    LET n  == Len(h) + 1
        h0 == Append(h, NewNode(id))
    IN  IF IsSome(parent_id)
        THEN LET parent == get_node(h0, ns, Unwrap(parent_id))
                 h1 == IF IsSome(parent) THEN add_child(h0, Unwrap(parent), n) ELSE h0
             IN  [heap |-> h1, nodes |-> Append(ns, n), res |-> "Ok", ret |-> Some(h1[n].id)]
        ELSE IF IsSome(get_root_node(h0, ns))
             THEN [heap |-> h, nodes |-> ns, res |-> "RootNodeAlreadyPresent", ret |-> None]
             ELSE [heap |-> h0, nodes |-> Append(ns, n), res |-> "Ok", ret |-> Some(h0[n].id)]

RECURSIVE RetainChildrenLoop(_, _, _, _, _)
\* Mutant: the children of the removed node are not reattached.
RetainChildrenLoop_skip(h, ns, parent_node, children, i) ==
    [heap |-> h, nodes |-> ns, res |-> "Ok"]

\* for child in children { parent_node.add_child(self.get_node(&child).unwrap()); }
RetainChildrenLoop(h, ns, parent_node, children, i) ==
    IF i > Len(children) THEN [heap |-> h, nodes |-> ns, res |-> "Ok"]
    ELSE LET c == get_node(h, ns, children[i])
         IN  IF ~IsSome(c) THEN [heap |-> h, nodes |-> ns, res |-> "panic"]
             ELSE RetainChildrenLoop(add_child(h, parent_node, Unwrap(c)), ns,
                                     parent_node, children, i + 1)

\* Mutant: the RetainChildren arm without the final self.nodes.retain(..).
remove_node_retain_keep(h, ns, id) ==
    LET node == get_node(h, ns, id)
    IN  IF ~IsSome(node) THEN [heap |-> h, nodes |-> ns, res |-> "panic"]
        ELSE LET nd == Unwrap(node)
             IN  IF ~IsSome(h[nd].parent)
                 THEN [heap |-> h, nodes |-> ns, res |-> "InvalidOperation"]
                 ELSE LET parent_node == get_node(h, ns, Unwrap(h[nd].parent))
                      IN  IF ~IsSome(parent_node)
                          THEN [heap |-> h, nodes |-> ns, res |-> "panic"]
                          ELSE LET h1 == remove_child(h, Unwrap(parent_node), nd)
                               IN  RetainChildrenLoop(h1, ns, Unwrap(parent_node),
                                                      h1[nd].children, 1)

\* Mutant: the RetainChildren arm without the root check: a node with no
\* parent is dropped from the store.
remove_node_retain_root(h, ns, id) ==
    LET node == get_node(h, ns, id)
    IN  IF ~IsSome(node) THEN [heap |-> h, nodes |-> ns, res |-> "panic"]
        ELSE LET nd == Unwrap(node)
                 parent_node == IF IsSome(h[nd].parent)
                                THEN get_node(h, ns, Unwrap(h[nd].parent)) ELSE None
             IN  IF ~IsSome(parent_node)
                 THEN [heap  |-> h,
                       nodes |-> SelectSeq(ns, LAMBDA x : h[x].id # id),
                       res   |-> "Ok"]
                 ELSE LET h1 == remove_child(h, Unwrap(parent_node), nd)
                          r  == RetainChildrenLoop(h1, ns, Unwrap(parent_node),
                                                   h1[nd].children, 1)
                      IN  IF r.res # "Ok" THEN r
                          ELSE [heap  |-> r.heap,
                                nodes |-> SelectSeq(ns, LAMBDA x : r.heap[x].id # id),
                                res   |-> "Ok"]

\* NodeRemovalStrategy::RetainChildren arm of remove_node.
remove_node_retain(h, ns, id) ==
    LET node == get_node(h, ns, id)
    IN  IF ~IsSome(node) THEN [heap |-> h, nodes |-> ns, res |-> "panic"]
        ELSE LET nd == Unwrap(node)
             IN  IF ~IsSome(h[nd].parent)
                 THEN [heap |-> h, nodes |-> ns, res |-> "InvalidOperation"]
                 ELSE LET parent_node == get_node(h, ns, Unwrap(h[nd].parent))
                      IN  IF ~IsSome(parent_node)
                          THEN [heap |-> h, nodes |-> ns, res |-> "panic"]
                          ELSE LET h1 == remove_child(h, Unwrap(parent_node), nd)
                                   r  == RetainChildrenLoop(h1, ns, Unwrap(parent_node),
                                                            h1[nd].children, 1)
                               IN  IF r.res # "Ok" THEN r
                                   ELSE [heap  |-> r.heap,
                                         nodes |-> SelectSeq(ns, LAMBDA x : r.heap[x].id # id),
                                         res   |-> "Ok"]

RECURSIVE remove_node_and_children(_, _, _), RemoveChildrenLoop(_, _, _, _, _)
RECURSIVE RemoveChildrenLoop_shallow(_, _, _, _, _)
\* Mutant: each child is dropped from the store without the recursive call,
\* so grandchildren stay.
RemoveChildrenLoop_shallow(h, ns, node, children, i) ==
    IF i > Len(children) THEN [heap |-> h, nodes |-> ns, res |-> "Ok"]
    ELSE LET c == get_node(h, ns, children[i])
         IN  IF ~IsSome(c) THEN [heap |-> h, nodes |-> ns, res |-> "panic"]
             ELSE LET h1 == remove_child(h, node, Unwrap(c))
                  IN  RemoveChildrenLoop_shallow(
                          h1, SelectSeq(ns, LAMBDA x : h1[x].id # children[i]),
                          node, children, i + 1)

\* for child in children { let child = self.get_node(&child).unwrap();
\*   node.remove_child(child.clone()); self.remove_node(&child.get_node_id(), strategy)?; }
RemoveChildrenLoop(h, ns, node, children, i) ==
    IF i > Len(children) THEN [heap |-> h, nodes |-> ns, res |-> "Ok"]
    ELSE LET c == get_node(h, ns, children[i])
         IN  IF ~IsSome(c) THEN [heap |-> h, nodes |-> ns, res |-> "panic"]
             ELSE LET h1 == remove_child(h, node, Unwrap(c))
                      r  == remove_node_and_children(h1, ns, h1[Unwrap(c)].id)
                  IN  IF r.res # "Ok" THEN r
                      ELSE RemoveChildrenLoop(r.heap, r.nodes, node, children, i + 1)

\* NodeRemovalStrategy::RemoveNodeAndChildren arm of remove_node.
remove_node_and_children(h, ns, id) ==
    LET node == get_node(h, ns, id)
    IN  IF ~IsSome(node) THEN [heap |-> h, nodes |-> ns, res |-> "panic"]
        ELSE LET nd == Unwrap(node)
                 children == h[nd].children
                 parent == IF IsSome(h[nd].parent)
                           THEN get_node(h, ns, Unwrap(h[nd].parent)) ELSE None
             IN  IF IsSome(h[nd].parent) /\ ~IsSome(parent)
                 THEN [heap |-> h, nodes |-> ns, res |-> "panic"]
                 ELSE LET h1 == IF IsSome(parent)
                                THEN remove_child(h, Unwrap(parent), nd) ELSE h
                          ns1 == SelectSeq(ns, LAMBDA x : h1[x].id # id)
                      IN  RemoveChildrenLoop(h1, ns1, nd, children, 1)

Strategies == {"RetainChildren", "RemoveNodeAndChildren"}

\* Tree::remove_node(node_id, strategy)
remove_node(h, ns, id, strategy) ==
    IF strategy = "RetainChildren" THEN remove_node_retain(h, ns, id)
    ELSE remove_node_and_children(h, ns, id)

\* Tree::add_subtree(node_id, subtree): the subtree is moved into the call.
add_subtree(h, ns, sb, id) ==
    LET node == get_node(h, ns, id)
        root_node == get_root_node(h, sb)
    IN  IF ~IsSome(node) \/ ~IsSome(root_node)
        THEN [heap |-> h, nodes |-> ns, res |-> "panic"]
        ELSE [heap  |-> add_child(h, Unwrap(node), Unwrap(root_node)),
              nodes |-> ns \o sb,
              res   |-> "Ok"]

Orders == {"PreOrder", "PostOrder", "InOrder"}

RECURSIVE traverse(_, _, _, _), TraverseChildren(_, _, _, _, _), InOrderLoop(_, _, _, _, _, _)
RECURSIVE TraverseChildren_rev(_, _, _, _, _)
\* Mutant: the children are visited last to first.
TraverseChildren_rev(h, ns, order, children, i) ==
    IF i > Len(children) THEN << >>
    ELSE TraverseChildren_rev(h, ns, order, children, i + 1)
         \o traverse(h, ns, order, children[i])

\* for child_id in node.get_children().iter() { nodes.append(&mut self.traverse(order, child_id)); }
TraverseChildren(h, ns, order, children, i) ==
    IF i > Len(children) THEN << >>
    ELSE traverse(h, ns, order, children[i])
         \o TraverseChildren(h, ns, order, children, i + 1)

\* The InOrder arm's loop: `acc` is the Vec `nodes` built so far; i is 1-based,
\* so the code's `index == 0` is i = 1.
InOrderLoop(h, ns, node_id, children, i, acc) ==
    IF i > Len(children) THEN acc
    ELSE LET child_id == children[i]
             t == traverse(h, ns, "InOrder", child_id)
         IN  IF i = 1
             THEN LET a1 == acc \o t
                      a2 == IF Contains(a1, child_id) THEN a1 ELSE Append(a1, child_id)
                      a3 == IF Contains(a2, node_id) THEN a2 ELSE Append(a2, node_id)
                  IN  InOrderLoop(h, ns, node_id, children, i + 1, a3)
             ELSE InOrderLoop(h, ns, node_id, children, i + 1, Append(acc, child_id) \o t)

\* Tree::traverse(order, node_id); the node is looked up with unwrap().
traverse(h, ns, order, node_id) ==
    LET node == Unwrap(get_node(h, ns, node_id))
        children == h[node].children
        visited ==
            CASE order = "PreOrder"  ->
                    << node_id >> \o TraverseChildren(h, ns, order, children, 1)
              [] order = "PostOrder" ->
                    TraverseChildren(h, ns, order, children, 1) \o << node_id >>
              [] order = "InOrder"   ->
                    InOrderLoop(h, ns, node_id, children, 1, << >>)
    IN  Dedup(visited)

RECURSIVE get_subtree(_, _, _, _), SubtreeChildren(_, _, _, _, _), SubtreeGenerations(_, _, _, _, _)
RECURSIVE SubtreeChildren_shallow(_, _, _, _, _)
\* Mutant: each child contributes itself only, never its own descendants.
SubtreeChildren_shallow(h, ns, children, generations, i) ==
    IF i > Len(children) THEN << >>
    ELSE get_subtree(h, ns, children[i], Some(0))
         \o SubtreeChildren_shallow(h, ns, children, generations, i + 1)

\* for child in children { subsection.append(&mut self.get_subtree(&child, generations).get_nodes().clone()); }
SubtreeChildren(h, ns, children, generations, i) ==
    IF i > Len(children) THEN << >>
    ELSE get_subtree(h, ns, children[i], generations)
         \o SubtreeChildren(h, ns, children, generations, i + 1)

\* for current_generation in 0..generations { for child in children.clone() { ... Some(current_generation) ... } }
SubtreeGenerations(h, ns, children, generations, current_generation) ==
    IF current_generation >= generations THEN << >>
    ELSE SubtreeChildren(h, ns, children, Some(current_generation), 1)
         \o SubtreeGenerations(h, ns, children, generations, current_generation + 1)

\* Tree::get_subtree(node_id, generations): the Vec of the returned SubTree.
\* The pushed Nodes are clones of the stored handles, so the same cells.
get_subtree(h, ns, node_id, generations) ==
    LET node == get_node(h, ns, node_id)
    IN  IF ~IsSome(node) THEN << >>
        ELSE LET children == h[Unwrap(node)].children
             IN  << Unwrap(node) >>
                 \o (IF IsSome(generations)
                     THEN SubtreeGenerations(h, ns, children, Unwrap(generations), 0)
                     ELSE SubtreeChildren(h, ns, children, None, 1))

RECURSIVE get_node_height(_, _, _), HeightLoop(_, _, _, _, _)
RECURSIVE HeightLoop_last(_, _, _, _, _)
\* Mutant: the height of the last child is kept, not the greatest one.
HeightLoop_last(h, ns, children, i, height) ==
    IF i > Len(children) THEN height
    ELSE HeightLoop_last(h, ns, children, i + 1, get_node_height(h, ns, children[i]))

\* for child in children { let child_height = ..; if child_height > height { height = child_height; } }
HeightLoop(h, ns, children, i, height) ==
    IF i > Len(children) THEN height
    ELSE LET child_height == get_node_height(h, ns, children[i])
         IN  HeightLoop(h, ns, children, i + 1,
                        IF child_height > height THEN child_height ELSE height)

\* Tree::get_node_height(node_id); the node is looked up with unwrap().
get_node_height(h, ns, node_id) ==
    LET node == Unwrap(get_node(h, ns, node_id))
        children == h[node].children
    IN  IF children = << >> THEN 0
        ELSE HeightLoop(h, ns, children, 1, 0) + 1

\* Tree::get_height(): get_root_node().unwrap() panics on a store with no
\* parentless node.
get_height(h, ns) ==
    LET root == get_root_node(h, ns)
    IN  IF ~IsSome(root) THEN [res |-> "panic", ret |-> None]
        ELSE [res |-> "Ok", ret |-> Some(get_node_height(h, ns, h[Unwrap(root)].id))]

\* The pieces print_tree writes.  The output is kept as a sequence of lines,
\* a line being the sequence of the pieces written up to its newline; the
\* box-drawing characters are spelled in ASCII.
GlyphOpen == "|   "

GlyphBlank == "    "

MarkLast == "L-- "

MarkInner == "+-- "

\* `{}` of a Node: only the id is kept of its display form.
Display(h, n) == h[n].id

\* for x in 1..level { if is_within.0 && x == is_within.1 { "|   " } else { "    " } }
\* is_within is the pair << bool, level >>.
Prefix(level, is_within) ==
    [x \in 1..(level - 1) |->
        IF is_within[1] /\ x = is_within[2] THEN GlyphOpen ELSE GlyphBlank]

RECURSIVE print_tree(_, _, _, _, _, _), PrintChildren(_, _, _, _, _, _)
\* for (index, child) in children.iter().enumerate() { ... }: i is 1-based;
\* is_within is the variable the loop body updates from one child to the next.
PrintChildren(h, ns, node, level, is_within, i) ==
    LET children == h[node].children
    IN  IF i > Len(children) THEN << >>
        ELSE LET child == Unwrap(get_node(h, ns, children[i]))
                 last_item == (i - 1 = Len(children) - 1)
                 is_parent_last_item ==
                     IF IsSome(h[node].parent)
                     THEN LET parent == Unwrap(get_node(h, ns, Unwrap(h[node].parent)))
                          IN  h[parent].children[Len(h[parent].children)] = h[node].id
                     ELSE TRUE
                 w == IF ~is_within[1]
                      THEN << ~is_parent_last_item, level >>
                      ELSE << is_within[1],
                              IF level > 1 /\ level <= 3 THEN level - 1
                              ELSE IF level > 3 THEN level - 2
                              ELSE level >>
             IN  print_tree(h, ns, child, level + 1, w, last_item)
                 \o PrintChildren(h, ns, node, level, w, i + 1)

\* Tree::print_tree(tree, f, node, level, is_within, is_last_child): the lines
\* written to f.
print_tree(h, ns, node, level, is_within, is_last_child) ==
    LET line == IF level > 0
                THEN Prefix(level, is_within)
                     \o << IF is_last_child THEN MarkLast ELSE MarkInner, Display(h, node) >>
                ELSE << Display(h, node) >>
    IN  << line >> \o PrintChildren(h, ns, node, level, is_within, 1)

\* <Tree as Display>::fmt: nodes.first().unwrap() panics on an empty store.
fmt(h, ns) ==
    LET root == get_root_node(h, ns)
    IN  IF IsSome(root)
        THEN [res |-> "Ok",
              out |-> print_tree(h, ns, Unwrap(root), 0, << FALSE, 0 >>, TRUE)]
        ELSE IF ns = << >> THEN [res |-> "panic", out |-> << >>]
        ELSE [res |-> "Ok", out |-> print_tree(h, ns, ns[1], 0, << FALSE, 0 >>, TRUE)]

\* ------------------------------------------------------------------ handles
\* Handles are addresses: only which cells are shared is observable.  After a
\* call the live cells (those some store still holds) are renumbered in order
\* of first occurrence and the released ones are dropped.
Canon(h, ns, sb) ==
    LET ord == Dedup(ns \o sb)
        idx(x) == CHOOSE i \in 1..Len(ord) : ord[i] = x
    IN  [heap  |-> [i \in 1..Len(ord) |-> h[ord[i]]],
         nodes |-> [i \in 1..Len(ns) |-> idx(ns[i])],
         sub   |-> [i \in 1..Len(sb) |-> idx(sb[i])]]

\* In the actions the result r of a call and the renumbered state c are bound
\* with \E over a one-element set, so that each is computed once per step.
Call(name, id, arg, res, ret) ==
    [name |-> name, id |-> id, arg |-> arg, res |-> res, ret |-> ret]

Running == op.res # "panic"

\* ------------------------------------------------------------------ actions
Init ==
    /\ heap = << >>
    /\ nodes = << >>
    /\ sub = << >>
    /\ op = Call("new", None, None, "Ok", None)
    /\ pre = << >>
    /\ out = << >>

\* tree.add_node(Node::new(id, _), parent_id)
AddNode(id, parent_id) ==
    /\ Running
    /\ \E r \in {add_node(heap, nodes, id, parent_id)} : \E c \in {Canon(r.heap, r.nodes, sub)} :
           /\ heap' = c.heap
           /\ nodes' = c.nodes
           /\ sub' = c.sub
           /\ op' = Call("add_node", Some(id), parent_id, r.res, r.ret)
    /\ out' = << >>

\* tree.remove_node(&id, strategy)
RemoveNode(id, strategy) ==
    /\ Running
    /\ \E r \in {remove_node(heap, nodes, id, strategy)} : \E c \in {Canon(r.heap, r.nodes, sub)} :
           /\ heap' = c.heap
           /\ nodes' = c.nodes
           /\ sub' = c.sub
           /\ op' = Call("remove_node", Some(id), Some(strategy), r.res, None)
    /\ out' = << >>

\* subtree.add_node(Node::new(id, _), parent_id), on the second Tree value
SubAddNode(id, parent_id) ==
    /\ Running
    /\ \E r \in {add_node(heap, sub, id, parent_id)} : \E c \in {Canon(r.heap, nodes, r.nodes)} :
           /\ heap' = c.heap
           /\ nodes' = c.nodes
           /\ sub' = c.sub
           /\ op' = Call("sub.add_node", Some(id), parent_id, r.res, r.ret)
    /\ out' = << >>

\* tree.add_subtree(&id, subtree): the second Tree value is consumed.
AddSubtree(id) ==
    /\ Running
    /\ \E r \in {add_subtree(heap, nodes, sub, id)} : \E c \in {Canon(r.heap, r.nodes, << >>)} :
           /\ heap' = c.heap
           /\ nodes' = c.nodes
           /\ sub' = c.sub
           /\ op' = Call("add_subtree", Some(id), None, r.res, None)
    /\ out' = << >>

\* tree.traverse(order, &id) for a stored id
Traverse(order, id) ==
    /\ Running
    /\ IsSome(get_node(heap, nodes, id))
    /\ out' = traverse(heap, nodes, order, id)
    /\ op' = Call("traverse", Some(id), Some(order), "Ok", None)
    /\ UNCHANGED << heap, nodes, sub >>

\* let s = tree.get_subtree(&id, generations): the second Tree value now is s.
GetSubtree(id, generations) ==
    /\ Running
    /\ \E r \in {get_subtree(heap, nodes, id, generations)} : \E c \in {Canon(heap, nodes, r)} :
           /\ heap' = c.heap
           /\ nodes' = c.nodes
           /\ sub' = c.sub
           /\ op' = Call("get_subtree", Some(id), generations, "Ok", None)
    /\ out' = << >>

\* tree.get_node_height(&id) for a stored id
GetNodeHeight(id) ==
    /\ Running
    /\ IsSome(get_node(heap, nodes, id))
    /\ op' = Call("get_node_height", Some(id), None, "Ok", Some(get_node_height(heap, nodes, id)))
    /\ out' = << >>
    /\ UNCHANGED << heap, nodes, sub >>

\* tree.get_height()
GetHeight ==
    /\ Running
    /\ \E r \in {get_height(heap, nodes)} :
           op' = Call("get_height", None, None, r.res, r.ret)
    /\ out' = << >>
    /\ UNCHANGED << heap, nodes, sub >>

\* format!("{}", tree)
Fmt ==
    /\ Running
    /\ \E r \in {fmt(heap, nodes)} :
           /\ out' = r.out
           /\ op' = Call("fmt", None, None, r.res, None)
    /\ UNCHANGED << heap, nodes, sub >>

\* ------------------------------------------------------------------ Spec
\* Any call with any argument: ids already stored, parent ids that are not
\* stored, removal of ids that are not stored.  Child lists can grow without
\* bound once ids are reused; the total is capped at MaxStore.
RECURSIVE AllChildren(_)
AllChildren(h) == IF h = << >> THEN << >> ELSE Head(h).children \o AllChildren(Tail(h))

StoreIds(h, ns) == {h[ns[i]].id : i \in 1..Len(ns)}

Before == pre' = View(heap, nodes)

AnyAdd ==
    \E id \in Keys, p \in Opt(Keys) :
        /\ Len(nodes) + Len(sub) < MaxStore
        /\ AddNode(id, p)
        /\ Before
        /\ Len(AllChildren(heap')) <= MaxStore

AnyRemove ==
    \E id \in Keys, s \in Strategies :
        /\ RemoveNode(id, s)
        /\ Before
        /\ Len(AllChildren(heap')) <= MaxStore

AnySubAdd ==
    \E id \in Keys, p \in Opt(Keys) :
        /\ Len(nodes) + Len(sub) < MaxStore
        /\ SubAddNode(id, p)
        /\ Before
        /\ Len(AllChildren(heap')) <= MaxStore

AnyAddSubtree ==
    \E id \in Keys :
        /\ AddSubtree(id)
        /\ Before
        /\ Len(AllChildren(heap')) <= MaxStore

Next == AnyAdd \/ AnyRemove \/ AnySubAdd \/ AnyAddSubtree

Spec == Init /\ [][Next]_vars

\* ------------------------------------------------------------------ SpecUnique
\* Callers that never reuse a node id and only name stored nodes in
\* remove_node; the parent id given to add_node is arbitrary.
FreshAdd ==
    \E id \in Ids \ StoreIds(heap, nodes), p \in Opt(Ids) :
        /\ Len(nodes) < MaxNodes
        /\ AddNode(id, p)
        /\ Before

StoredRemove ==
    \E id \in StoreIds(heap, nodes), s \in Strategies :
        /\ RemoveNode(id, s)
        /\ Before

NextUnique == FreshAdd \/ StoredRemove

SpecUnique == Init /\ [][NextUnique]_vars

\* ------------------------------------------------------------------ SpecQuery
\* A tree is built with add_node (ids never reused) and read with traverse.
\* The queries take &self: the store they read is the current one.
BuildAdd ==
    \E id \in Ids \ StoreIds(heap, nodes), p \in Opt(Ids) :
        /\ Len(nodes) < MaxNodes
        /\ AddNode(id, p)
        /\ pre' = << >>

StoredTraverse ==
    \E id \in StoreIds(heap, nodes), o \in Orders :
        /\ Traverse(o, id)
        /\ pre' = << >>

StoredHeight ==
    \E id \in StoreIds(heap, nodes) :
        /\ GetNodeHeight(id)
        /\ pre' = << >>

TreeHeight ==
    /\ GetHeight
    /\ pre' = << >>

NextQuery == BuildAdd \/ StoredTraverse \/ StoredHeight \/ TreeHeight

SpecQuery == Init /\ [][NextQuery]_vars

\* ------------------------------------------------------------------ data model
\* The Tree invariants of the data model, stated over the cells of a store.
Cur == View(heap, nodes)

IdSeq(v) == [i \in 1..Len(v) |-> v[i].id]

IdsOf(v) == {v[i].id : i \in 1..Len(v)}

Parentless(v) == {i \in 1..Len(v) : v[i].parent = None}

SingleRoot(v) ==
    /\ Cardinality(Parentless(v)) <= 1
    /\ Len(v) > 0 => Cardinality(Parentless(v)) = 1

UniqueIds(v) == \A i, j \in 1..Len(v) : v[i].id = v[j].id => i = j

Consistent(v) ==
    /\ \A i \in 1..Len(v) :
          IsSome(v[i].parent) =>
              \E j \in 1..Len(v) : /\ v[j].id = Unwrap(v[i].parent)
                                   /\ Contains(v[j].children, v[i].id)
    /\ \A i \in 1..Len(v) : \A k \in 1..Len(v[i].children) :
          \E j \in 1..Len(v) : /\ v[j].id = v[i].children[k]
                               /\ v[j].parent = Some(v[i].id)

\* The cell with the given id (ids are distinct where this is used).
Cell(v, id) == v[CHOOSE i \in 1..Len(v) : v[i].id = id]

RECURSIVE AncestorsUpTo(_, _, _)
AncestorsUpTo(v, id, fuel) ==
    IF fuel = 0 \/ id \notin IdsOf(v) THEN {}
    ELSE IF ~IsSome(Cell(v, id).parent) THEN {}
         ELSE {Unwrap(Cell(v, id).parent)}
              \cup AncestorsUpTo(v, Unwrap(Cell(v, id).parent), fuel - 1)

\* The ids reached from id by parent hops.
Ancestors(v, id) == AncestorsUpTo(v, id, Len(v))

\* The transitive descendants of x: the stored ids that have x as an ancestor.
Descendants(v, x) == {y \in IdsOf(v) : x \in Ancestors(v, y)}

Acyclic(v) == \A id \in IdsOf(v) : id \notin Ancestors(v, id)

NoRepeatedChild(v) ==
    \A i \in 1..Len(v) : \A k, l \in 1..Len(v[i].children) :
        v[i].children[k] = v[i].children[l] => k = l

ValidTree(v) ==
    /\ UniqueIds(v)
    /\ SingleRoot(v)
    /\ Consistent(v)
    /\ NoRepeatedChild(v)
    /\ Acyclic(v)

SeqSet(q) == {q[i] : i \in 1..Len(q)}

RECURSIVE Flatten(_)
Flatten(qs) == IF qs = << >> THEN << >> ELSE Head(qs) \o Flatten(Tail(qs))

\* The position of x in q (x occurs in q).
Pos(q, x) == CHOOSE i \in 1..Len(q) : q[i] = x

Removed(name, strategy) ==
    /\ op.name = name
    /\ op.arg = Some(strategy)

\* ------------------------------------------------------------------ SpecSubtree
\* A tree is built with add_node (ids never reused); once built, a subtree s
\* is extracted with get_subtree, and the extract-remove-merge sequence
\*     let s = tree.get_subtree(&x, None);
\*     tree.remove_node(&x, RemoveNodeAndChildren);
\*     tree.add_subtree(&p, s);
\* may follow for a node x that has a parent p.  `pre` keeps the cells of the
\* store at the time of the extraction.
SubtreeBuild ==
    /\ op.name \in {"new", "add_node"}
    /\ BuildAdd

StoredSubtree ==
    \E id \in StoreIds(heap, nodes), g \in Opt(0..MaxGen) :
        /\ op.name \in {"new", "add_node"}
        /\ GetSubtree(id, g)
        /\ Before

RemoveExtracted ==
    /\ op.name = "get_subtree"
    /\ op.arg = None
    /\ IsSome(Cell(pre, Unwrap(op.id)).parent)
    /\ RemoveNode(Unwrap(op.id), "RemoveNodeAndChildren")
    /\ UNCHANGED pre

MergeExtracted ==
    /\ op.name = "remove_node"
    /\ AddSubtree(Unwrap(Cell(pre, Unwrap(op.id)).parent))
    /\ UNCHANGED pre

NextSubtree == SubtreeBuild \/ StoredSubtree \/ RemoveExtracted \/ MergeExtracted

SpecSubtree == Init /\ [][NextSubtree]_vars

\* ------------------------------------------------------------------ SpecMerge
\* A host Tree and a SubTree are built independently with add_node, no id
\* used twice in either; then the SubTree is merged with add_subtree under a
\* stored node of the host.  Here `pre` is the pair of the host's cells and
\* the SubTree's cells before the call.
UsedIds == StoreIds(heap, nodes) \cup StoreIds(heap, sub)

BeforeBoth == pre' = << View(heap, nodes), View(heap, sub) >>

HostAdd ==
    \E id \in Ids \ UsedIds, p \in Opt(Ids) :
        /\ Len(nodes) + Len(sub) < MaxNodes
        /\ AddNode(id, p)
        /\ BeforeBoth

SubtreeAdd ==
    \E id \in Ids \ UsedIds, p \in Opt(Ids) :
        /\ Len(nodes) + Len(sub) < MaxNodes
        /\ SubAddNode(id, p)
        /\ BeforeBoth

Merge ==
    \E id \in StoreIds(heap, nodes) :
        /\ sub # << >>
        /\ AddSubtree(id)
        /\ BeforeBoth

NextMerge == HostAdd \/ SubtreeAdd \/ Merge

SpecMerge == Init /\ [][NextMerge]_vars

\* ------------------------------------------------------------------ SpecRender
\* A tree is built with add_node, the k-th node having id k and a stored
\* parent (or none), and rendered.  Every shape of ordered tree of up to
\* MaxRender nodes is built this way.
RenderBuild ==
    \E p \in Opt(StoreIds(heap, nodes)) :
        /\ Len(nodes) < MaxRender
        /\ AddNode(Len(nodes) + 1, p)
        /\ pre' = << >>

RenderTree ==
    /\ Fmt
    /\ pre' = << >>

NextRender == RenderBuild \/ RenderTree

SpecRender == Init /\ [][NextRender]_vars

\* ------------------------------------------------------------------ claims

\* C1: after any sequence of add_node and remove_node calls, with any
\* parent_id argument, at most one stored node has no parent, and a
\* non-empty store has exactly one.
C1_SingleRoot == SingleRoot(Cur)

\* C2: after any sequence of add_node, remove_node and add_subtree calls the
\* ids of the stored nodes are pairwise distinct.
C2_UniqueIds == UniqueIds(Cur)

\* C3: when add_node is only called with ids that are not stored and
\* remove_node only with stored ids, every stored node with parent P has P
\* stored with the node in P's child list, and every id in a child list is
\* a stored node whose parent is the owner of the list.
C3_Consistent == Consistent(Cur)

C3_Witness ==
    /\ Removed("remove_node", "RetainChildren")
    /\ op.res = "Ok"
    /\ Len(Cell(pre, Unwrap(op.id)).children) >= 1
    /\ Len(nodes) >= 3

\* C4: add_node(node, None) returns Err(RootNodeAlreadyPresent) exactly when
\* the store holds a node with no parent, and then the store is unchanged;
\* otherwise it returns Ok(node id) and the node is appended at the end.
C4_AddRoot ==
    (op.name = "add_node" /\ op.arg = None) =>
        /\ (op.res = "RootNodeAlreadyPresent") <=> (Parentless(pre) # {})
        /\ op.res = "RootNodeAlreadyPresent" => Cur = pre
        /\ op.res # "RootNodeAlreadyPresent" =>
              /\ op.res = "Ok"
              /\ op.ret = op.id
              /\ Cur = Append(pre, NewNode(Unwrap(op.id)))

C4_Witness ==
    /\ op.name = "add_node"
    /\ op.arg = None
    /\ op.res = "RootNodeAlreadyPresent"
    /\ Len(pre) >= 2

\* C5: add_node(node, Some(p)) with p not stored returns Ok(node id), appends
\* the node at the end with no parent, and leaves every stored cell as it was.
C5_UnknownParent ==
    (op.name = "add_node" /\ IsSome(op.arg) /\ Unwrap(op.arg) \notin IdsOf(pre)) =>
        /\ op.res = "Ok"
        /\ op.ret = op.id
        /\ Cur = Append(pre, NewNode(Unwrap(op.id)))

C5_Witness ==
    /\ op.name = "add_node"
    /\ IsSome(op.arg)
    /\ Unwrap(op.arg) \notin IdsOf(pre)
    /\ Len(pre) >= 2
    /\ \E i \in 1..Len(pre) : IsSome(pre[i].parent)
    /\ Cur[Len(Cur)].parent = None

\* C6: remove_node(x, RetainChildren) on a stored node x with parent p: the
\* store is the previous sequence with only x deleted; p's child list is its
\* previous list without x, followed by x's former children in their order;
\* every former child of x has parent p.
C6_RetainChildren ==
    (/\ Removed("remove_node", "RetainChildren")
     /\ Unwrap(op.id) \in IdsOf(pre)
     /\ IsSome(Cell(pre, Unwrap(op.id)).parent)) =>
        LET x == Unwrap(op.id)
            p == Unwrap(Cell(pre, x).parent)
            kids == Cell(pre, x).children
        IN  /\ op.res = "Ok"
            /\ IdSeq(Cur) = SelectSeq(IdSeq(pre), LAMBDA y : y # x)
            /\ Len(Cur) = Len(pre) - 1
            /\ Cell(Cur, p).children
                   = SelectSeq(Cell(pre, p).children, LAMBDA y : y # x) \o kids
            /\ \A k \in 1..Len(kids) : Cell(Cur, kids[k]).parent = Some(p)

C6_Witness ==
    /\ Removed("remove_node", "RetainChildren")
    /\ op.res = "Ok"
    /\ ValidTree(pre)
    /\ LET x == Unwrap(op.id)
       IN  /\ Len(Cell(pre, x).children) >= 1
           /\ Len(Cell(pre, Unwrap(Cell(pre, x).parent)).children) >= 2

\* C7: remove_node(x, RemoveNodeAndChildren) on a stored node x of a valid
\* tree returns Ok with no failed lookup; the store is the previous sequence
\* with exactly x and its transitive descendants deleted, and x's former
\* parent no longer lists x.
C7_RemoveNodeAndChildren ==
    (/\ Removed("remove_node", "RemoveNodeAndChildren")
     /\ Unwrap(op.id) \in IdsOf(pre)
     /\ ValidTree(pre)) =>
        LET x == Unwrap(op.id)
            gone == {x} \cup Descendants(pre, x)
        IN  /\ op.res = "Ok"
            /\ IdSeq(Cur) = SelectSeq(IdSeq(pre), LAMBDA y : y \notin gone)
            /\ Len(Cur) = Len(pre) - Cardinality(gone)
            /\ IsSome(Cell(pre, x).parent) =>
                  ~Contains(Cell(Cur, Unwrap(Cell(pre, x).parent)).children, x)

C7_Witness ==
    /\ Removed("remove_node", "RemoveNodeAndChildren")
    /\ op.res = "Ok"
    /\ ValidTree(pre)
    /\ LET x == Unwrap(op.id)
       IN  /\ IsSome(Cell(pre, x).parent)
           /\ \E y \in Descendants(pre, x) : Cell(pre, y).parent # Some(x)

\* C8: remove_node(root, RetainChildren), root being the stored node with no
\* parent, returns Err(InvalidOperation) and leaves the store unchanged.
C8_RetainRoot ==
    (/\ Removed("remove_node", "RetainChildren")
     /\ Unwrap(op.id) \in IdsOf(pre)
     /\ Cell(pre, Unwrap(op.id)).parent = None) =>
        /\ op.res = "InvalidOperation"
        /\ Cur = pre

C8_Witness ==
    /\ Removed("remove_node", "RetainChildren")
    /\ op.res = "InvalidOperation"
    /\ ValidTree(pre)
    /\ Len(pre) >= 3
    /\ Len(Cell(pre, Unwrap(op.id)).children) >= 1

\* The traversals of the children of s, in stored child order, concatenated.
ChildTraversals(order, s) ==
    LET kids == Cell(Cur, s).children
    IN  Flatten([k \in 1..Len(kids) |-> traverse(heap, nodes, order, kids[k])])

\* q lists each id of the subtree rooted at s exactly once.
ListsSubtree(q, s) ==
    /\ SeqSet(q) = {s} \cup Descendants(Cur, s)
    /\ Len(q) = Cardinality({s} \cup Descendants(Cur, s))

\* C9: on a valid tree, traverse(PreOrder, s) is s followed by the PreOrder
\* traversals of s's children in stored order, traverse(PostOrder, s) is
\* those PostOrder traversals followed by s, and either lists each id of
\* the subtree rooted at s exactly once.
C9_PrePostOrder ==
    (/\ op.name = "traverse"
     /\ op.arg \in {Some("PreOrder"), Some("PostOrder")}
     /\ ValidTree(Cur)) =>
        LET s == Unwrap(op.id)
            order == Unwrap(op.arg)
        IN  /\ ListsSubtree(out, s)
            /\ order = "PreOrder" => out = << s >> \o ChildTraversals(order, s)
            /\ order = "PostOrder" => out = ChildTraversals(order, s) \o << s >>

C9_Witness ==
    /\ op.name = "traverse"
    /\ op.arg = Some("PostOrder")
    /\ ValidTree(Cur)
    /\ LET kids == Cell(Cur, Unwrap(op.id)).children
       IN  /\ Len(kids) >= 2
           /\ \E k \in 1..Len(kids) : Len(Cell(Cur, kids[k]).children) >= 1

\* C10: on a valid tree, traverse(InOrder, s), for a leaf s as for any other
\* node, lists each id of the subtree rooted at s exactly once, with the
\* whole subtree of s's first child before s and the subtrees of the other
\* children after s, in stored child order.
C10_InOrder ==
    (/\ op.name = "traverse"
     /\ op.arg = Some("InOrder")
     /\ ValidTree(Cur)) =>
        LET s == Unwrap(op.id)
            kids == Cell(Cur, s).children
            Under(k) == {kids[k]} \cup Descendants(Cur, kids[k])
        IN  /\ ListsSubtree(out, s)
            /\ \A k \in 1..Len(kids) : \A y \in Under(k) :
                  IF k = 1 THEN Pos(out, y) < Pos(out, s)
                  ELSE Pos(out, s) < Pos(out, y)
            /\ \A k, l \in 2..Len(kids) :
                  k < l => \A y \in Under(k), z \in Under(l) : Pos(out, y) < Pos(out, z)

\* The ids of the nodes of the extracted SubTree, in its stored order.
SubIds == IdSeq(View(heap, sub))

\* C11: on a valid tree, get_subtree(x, None) holds x first, then every
\* transitive descendant of x, each exactly once and no other node;
\* get_subtree(x, Some(0)) holds x alone.
C11_SubtreeAll ==
    (/\ op.name = "get_subtree"
     /\ ValidTree(Cur)) =>
        LET x == Unwrap(op.id)
        IN  /\ op.arg = None =>
                  /\ SubIds[1] = x
                  /\ ListsSubtree(SubIds, x)
                  /\ \A i \in 1..Len(sub) : Contains(nodes, sub[i])
            /\ op.arg = Some(0) => SubIds = << x >>

C11_Witness ==
    /\ op.name = "get_subtree"
    /\ op.arg = None
    /\ ValidTree(Cur)
    /\ LET x == Unwrap(op.id)
       IN  /\ IsSome(Cell(Cur, x).parent)
           /\ \E y \in Descendants(Cur, x) : Cell(Cur, y).parent # Some(x)

\* The number of parent hops from id up to a parentless node (acyclic v).
Depth(v, id) == Cardinality(Ancestors(v, id))

\* x and the descendants of x at most g levels below x.
Within(v, x, g) ==
    {x} \cup {y \in Descendants(v, x) : Depth(v, y) - Depth(v, x) <= g}

\* C12: on a valid tree and for g >= 1, get_subtree(x, Some(g)) holds x and
\* each descendant of x at most g levels below x exactly once, and no
\* deeper descendant: its length is the number of nodes within g levels of x.
C12_SubtreeGenerations ==
    (/\ op.name = "get_subtree"
     /\ IsSome(op.arg)
     /\ Unwrap(op.arg) >= 1
     /\ ValidTree(Cur)) =>
        LET x == Unwrap(op.id)
            g == Unwrap(op.arg)
        IN  /\ SeqSet(SubIds) = Within(Cur, x, g)
            /\ Len(SubIds) = Cardinality(Within(Cur, x, g))

\* The first parentless cell of v, as get_root_node finds it.
RootCell(v) == v[CHOOSE i \in Parentless(v) : \A j \in Parentless(v) : i <= j]

\* C13: add_subtree(id, subtree) on a host that holds id, with a non-empty
\* subtree built independently with add_node on ids the host does not hold:
\* the host store is its old node sequence followed by the subtree's nodes
\* in their order; the subtree's root is the last child of id and has parent
\* id; every other cell of the subtree and the root's child list are as
\* they were; the host has exactly one parentless node.
C13_AddSubtree ==
    op.name = "add_subtree" =>
        LET host == pre[1]
            s == pre[2]
            id == Unwrap(op.id)
            root == RootCell(s)
        IN  /\ op.res = "Ok"
            /\ IdSeq(Cur) = IdSeq(host) \o IdSeq(s)
            /\ Len(Cur) = Len(host) + Len(s)
            /\ \A i \in 1..Len(host) : host[i].id # id => Cur[i] = host[i]
            /\ Cell(Cur, id).children = Append(Cell(host, id).children, root.id)
            /\ Cell(Cur, root.id).parent = Some(id)
            /\ Cell(Cur, root.id).children = root.children
            /\ \A i \in 1..Len(s) : s[i].id # root.id => Cur[Len(host) + i] = s[i]
            /\ Cardinality(Parentless(Cur)) = 1

\* The greatest of a non-empty set of numbers.
Max(S) == CHOOSE m \in S : \A k \in S : k <= m

\* The number of edges on the longest downward path from n in the valid tree v.
LongestPath(v, n) ==
    Max({Depth(v, y) - Depth(v, n) : y \in {n} \cup Descendants(v, n)})

\* C14: on a valid tree, get_node_height(n) is 0 when n has no children and
\* otherwise 1 + the greatest get_node_height of n's children, which is the
\* number of edges on the longest downward path from n; get_height() is the
\* get_node_height of the root.
C14_Height ==
    /\ (op.name = "get_node_height" /\ ValidTree(Cur)) =>
          LET n == Unwrap(op.id)
              kids == Cell(Cur, n).children
          IN  /\ op.ret = Some(LongestPath(Cur, n))
              /\ kids = << >> => op.ret = Some(0)
              /\ kids # << >> =>
                    op.ret = Some(1 + Max({get_node_height(heap, nodes, kids[k]) :
                                               k \in 1..Len(kids)}))
    /\ (op.name = "get_height" /\ ValidTree(Cur) /\ nodes # << >>) =>
          /\ op.res = "Ok"
          /\ op.ret = Some(get_node_height(heap, nodes, RootCell(Cur).id))
          /\ op.ret = Some(LongestPath(Cur, RootCell(Cur).id))

C14_Witness ==
    /\ op.name = "get_node_height"
    /\ ValidTree(Cur)
    /\ op.ret = Some(2)
    /\ LET kids == Cell(Cur, Unwrap(op.id)).children
       IN  /\ Len(kids) = 2
           /\ Len(Cell(Cur, kids[1]).children) = 1
           /\ Cell(Cur, kids[2]).children = << >>

\* id is the last entry of its parent's child list.
IsLastChild(v, id) ==
    LET kids == Cell(v, Unwrap(Cell(v, id).parent)).children
    IN  kids[Len(kids)] = id

\* The ancestor of id at depth k, id itself included (1 <= k <= Depth(v, id)).
AncestorAt(v, id, k) ==
    CHOOSE a \in Ancestors(v, id) \cup {id} : Depth(v, a) = k

\* The line of a node as the rendering contract gives it.
ExpectedLine(v, id) ==
    LET d == Depth(v, id)
    IN  IF d = 0 THEN << id >>
        ELSE [k \in 1..(d - 1) |->
                 IF IsLastChild(v, AncestorAt(v, id, k)) THEN GlyphBlank ELSE GlyphOpen]
             \o << IF IsLastChild(v, id) THEN MarkLast ELSE MarkInner, id >>

\* C15: rendering a valid tree writes one line per node, in pre-order; the
\* root's line is its display form alone; the line of a node at depth
\* d >= 1 is d-1 glyphs, the k-th being the open glyph if the node's
\* ancestor at depth k is not the last child of its parent and blank if it
\* is, then the last-child or inner-child marker of the node, then its
\* display form.
C15_Render ==
    (/\ op.name = "fmt"
     /\ nodes # << >>
     /\ ValidTree(Cur)) =>
        LET order == traverse(heap, nodes, "PreOrder", RootCell(Cur).id)
        IN  /\ op.res = "Ok"
            /\ out = [i \in 1..Len(order) |-> ExpectedLine(Cur, order[i])]

\* C16: on a valid tree and for a node x with parent p, the sequence
\* s = get_subtree(x, None); remove_node(x, RemoveNodeAndChildren);
\* add_subtree(p, s) runs without a failed lookup and ends with the ids
\* stored before, every node under the parent it had before, every child
\* list holding the ids it held before, and exactly one parentless node.
C16_RoundTrip ==
    /\ (op.name = "remove_node" /\ ValidTree(pre)) => op.res = "Ok"
    /\ (op.name = "add_subtree" /\ ValidTree(pre)) =>
          /\ op.res = "Ok"
          /\ UniqueIds(Cur)
          /\ IdsOf(Cur) = IdsOf(pre)
          /\ \A id \in IdsOf(pre) :
                /\ Cell(Cur, id).parent = Cell(pre, id).parent
                /\ SeqSet(Cell(Cur, id).children) = SeqSet(Cell(pre, id).children)
          /\ Cardinality(Parentless(Cur)) = 1

====
